---- MODULE Spec2Model ----
(***************************************************************************)
(* A model of src/src/tcp_client.c: the request sender                     *)
(* (tcp_client_send_request), the response reassembler                     *)
(* (tcp_client_receive_response), the script reader (tcp_client_get_line), *)
(* the connector (tcp_client_connect) and the file functions               *)
(* (tcp_client_open_file, tcp_client_close_file).                          *)
(*                                                                         *)
(* A byte is a one-character string; NUL stands for the byte '\0'.  A C    *)
(* string or a memory region is a sequence of bytes.                       *)
(***************************************************************************)
EXTENDS Integers, Sequences, FiniteSets, TLC

VARIABLES
    \* ---- tcp_client_send_request
    action,             \* char *action (argument)
    message,            \* char *message (argument)
    request,            \* char *request, as sprintf leaves it
    total_bytes_sent,   \* int total_bytes_sent
    wire,               \* the bytes the connection has accepted, in order
    partial_writes,     \* number of send calls that accepted fewer bytes than asked
    send_pc             \* "idle" | "sending" | "returned" | "exited"

send_vars == <<action, message, request, total_bytes_sent, wire, partial_writes, send_pc>>

VARIABLES
    \* ---- the peer of tcp_client_receive_response
    frames,                 \* the payloads the peer sends, in wire order
    stream,                 \* the peer's byte stream: the frames, concatenated
    rpos,                   \* number of stream bytes recv has returned so far
    \* ---- tcp_client_receive_response
    buffer,                 \* char *buffer: the bytes from offset 0 on; bytes past Len are NUL
    buffer_size,            \* int buffer_size
    total_bytes_received,   \* int total_bytes_received
    all_done,               \* int all_done
    recv_pc,                \* "recv" | "decode" | "returned" | "exited" | "crashed"
    heap_corrupt,           \* a recv has written below buffer[0]
    buffer_freed,           \* free(buffer) has run
    live_messages,          \* messages malloc'ed and not freed
    last_recv,              \* the last recv: "none" | "data" | "closed" (0) | "error" (-1)
    read_start,             \* the stream offset of the first byte of the last recv
    delivered,              \* the messages passed to handle_response, in order
    since_read              \* how many of them since the last recv

peer_vars == <<frames, stream, rpos>>
recv_vars == <<buffer, buffer_size, total_bytes_received, all_done, recv_pc, heap_corrupt,
               buffer_freed, live_messages, last_recv, read_start, delivered, since_read>>

VARIABLES
    \* ---- tcp_client_get_line and its caller
    file,           \* the lines of the script
    consumed,       \* how many of them getline has returned
    gl_action,      \* *action, read as a C string
    gl_message,     \* *message, read as a C string
    gl_ret,         \* the value the last call returned
    gl_pc,          \* "idle" | "loop" | "yielded" | "ended" | "crashed"
    gl_cause,       \* why getline returned -1: "none" | "eof" | "error"
    gl_overflow,    \* sscanf has stored past an allocation
    yielded         \* the numbers of the lines the calls returned, in order

line_vars == <<file, consumed, gl_action, gl_message, gl_ret, gl_pc, gl_cause, gl_overflow,
               yielded>>

VARIABLES
    \* ---- tcp_client_connect
    servinfo,       \* the list getaddrinfo resolved: what socket and connect do for each entry
    p,              \* struct addrinfo *p: the index of the entry at hand, 0 = NULL
    sockfd,         \* int sockfd
    open_sockets,   \* the entries whose socket is open
    attempts,       \* the entries connect was called for, in order
    connect_ret,    \* the value returned
    connect_pc      \* "idle" | "socket" | "connect" | "after" | "returned" | "exited"

connect_vars == <<servinfo, p, sockfd, open_sockets, attempts, connect_ret, connect_pc>>

VARIABLES
    \* ---- tcp_client_open_file, tcp_client_close_file and their caller
    fd,             \* FILE *fd of the caller: "NULL" | "open" | "closed" (dangling) | "stdin"
    file_log,       \* the calls made so far, in order
    file_ret,       \* what the last tcp_client_close_file returned; -1 before any
    closed_what,    \* what fd was when tcp_client_close_file was last called
    file_pc         \* "ready" | "exited" | "crashed"

file_vars == <<fd, file_log, file_ret, closed_what, file_pc>>

VARIABLES
    \* ---- the caller of tcp_client_receive_response
    calls           \* number of calls made on the connection so far

call_vars == <<calls>>

vars == <<send_vars, peer_vars, recv_vars, line_vars, connect_vars, file_vars, call_vars>>

\* what a step of one function leaves alone
outside_send == <<peer_vars, recv_vars, line_vars, connect_vars, file_vars, call_vars>>
outside_recv == <<send_vars, line_vars, connect_vars, file_vars, call_vars>>
outside_line == <<send_vars, peer_vars, recv_vars, connect_vars, file_vars, call_vars>>
outside_connect == <<send_vars, peer_vars, recv_vars, line_vars, file_vars, call_vars>>
outside_file == <<send_vars, peer_vars, recv_vars, line_vars, connect_vars, call_vars>>

-----------------------------------------------------------------------------
(* Bytes *)

NUL == "NUL"
SP  == " "
TAB == "\t"
NL  == "\n"

Digits == <<"0", "1", "2", "3", "4", "5", "6", "7", "8", "9">>

\* isdigit(c), <ctype.h>
isdigit(c) == \E i \in 1..10 : Digits[i] = c

\* the value of a decimal digit
DigitValue(c) == (CHOOSE i \in 1..10 : Digits[i] = c) - 1

\* isspace(c), <ctype.h>, over the bytes of the model
isspace(c) == c \in {SP, TAB, NL}

Min(a, b) == IF a < b THEN a ELSE b
Max(a, b) == IF a > b THEN a ELSE b

\* the bytes of s from 0-based offset i on
Tail_from(s, i) == SubSeq(s, i + 1, Len(s))

\* strlen(s): the number of bytes before the first NUL of the region s
strlen(s) ==
    IF \E i \in 1..Len(s) : s[i] = NUL
    THEN (CHOOSE i \in 1..Len(s) : s[i] = NUL /\ \A j \in 1..(i - 1) : s[j] # NUL) - 1
    ELSE Len(s)

\* printf's %d of a non-negative int: its decimal digits, most significant first
RECURSIVE FormatDecimal(_)
FormatDecimal(n) ==
    IF n < 10 THEN <<Digits[n + 1]>>
    ELSE FormatDecimal(n \div 10) \o <<Digits[(n % 10) + 1]>>

\* atoi(s) for s beginning with a digit: the value of the leading run of digits
RECURSIVE atoi_from(_, _, _)
atoi_from(s, i, acc) ==
    IF i > Len(s) \/ ~isdigit(s[i]) THEN acc
    ELSE atoi_from(s, i + 1, acc * 10 + DigitValue(s[i]))

atoi(s) == atoi_from(s, 1, 0)

-----------------------------------------------------------------------------
(* The five actions of is_valid_action *)

Uppercase == <<"u", "p", "p", "e", "r", "c", "a", "s", "e">>
Lowercase == <<"l", "o", "w", "e", "r", "c", "a", "s", "e">>
Reverse   == <<"r", "e", "v", "e", "r", "s", "e">>
Shuffle   == <<"s", "h", "u", "f", "f", "l", "e">>
Random    == <<"r", "a", "n", "d", "o", "m">>

actions == {Uppercase, Lowercase, Reverse, Shuffle, Random}

is_valid_action(a) == a \in actions

-----------------------------------------------------------------------------
(* Bounds of the sender's inputs *)

MaxMsgLen == 2          \* messages over MsgBytes up to this length
MaxPartialWrites == 2   \* send calls per request that accept fewer bytes than asked

MsgBytes == {"a", SP}

RECURSIVE SeqsUpTo(_, _)
SeqsUpTo(S, n) ==
    IF n = 0 THEN {<<>>}
    ELSE LET shorter == SeqsUpTo(S, n - 1)
         IN  shorter \cup {Append(s, b) : s \in {t \in shorter : Len(t) = n - 1}, b \in S}

Hello == <<"h", "e", "l", "l", "o">>
TwelveBytes == <<"a", SP, "a", "a", "a", SP, SP, "a", "a", "a", "a", "a">>

Messages == SeqsUpTo(MsgBytes, MaxMsgLen) \cup {Hello, TwelveBytes}

-----------------------------------------------------------------------------
(* tcp_client_send_request *)

\* sprintf(request, "%s %d %s", action, message_length, message)
BuildRequestWholeLength(a, m) ==
    a \o <<SP>> \o FormatDecimal(Len(a) + Len(m) + 2 + Len(FormatDecimal(Len(m)))) \o <<SP>> \o m

BuildRequest(a, m) ==
    a \o <<SP>> \o FormatDecimal(strlen(m)) \o <<SP>> \o m

SendInit ==
    /\ action \in actions
    /\ message \in Messages
    /\ request = <<>>
    /\ total_bytes_sent = 0
    /\ wire = <<>>
    /\ partial_writes = 0
    /\ send_pc = "idle"

\* lines 194-202: the frame is built and its length taken
SendEnter ==
    /\ send_pc = "idle"
    /\ request' = BuildRequest(action, message)
    /\ total_bytes_sent' = 0
    /\ send_pc' = "sending"
    /\ UNCHANGED <<action, message, wire, partial_writes>>
    /\ UNCHANGED outside_send

\* send(sockfd, request, n, 0) accepting k bytes: the first k bytes at request
SendBuffer(req, k) == SubSeq(req, 1, k)

\* lines 205-213, one iteration in which send accepts k bytes
SendWrite ==
    /\ send_pc = "sending"
    /\ total_bytes_sent < Len(request)
    /\ \E k \in 1..(Len(request) - total_bytes_sent) :
          /\ k < Len(request) - total_bytes_sent => partial_writes < MaxPartialWrites
          /\ wire' = wire \o SendBuffer(request, k)
          /\ total_bytes_sent' = total_bytes_sent + k
          /\ partial_writes' =
                IF k < Len(request) - total_bytes_sent THEN partial_writes + 1
                ELSE partial_writes
    /\ UNCHANGED <<action, message, request, send_pc>>
    /\ UNCHANGED outside_send

\* lines 208-211: send returns -1, the process exits
SendError ==
    /\ send_pc = "sending"
    /\ total_bytes_sent < Len(request)
    /\ send_pc' = "exited"
    /\ UNCHANGED <<action, message, request, total_bytes_sent, wire, partial_writes>>
    /\ UNCHANGED outside_send

\* lines 205, 214-215: the loop ends, request is freed, EXIT_SUCCESS
SendReturn ==
    /\ send_pc = "sending"
    /\ total_bytes_sent >= Len(request)
    /\ send_pc' = "returned"
    /\ UNCHANGED <<action, message, request, total_bytes_sent, wire, partial_writes>>
    /\ UNCHANGED outside_send

SendNext == SendEnter \/ SendWrite \/ SendError \/ SendReturn

-----------------------------------------------------------------------------
(* The peer: a stream of well-formed frames "<decimal-length> <payload>" *)

DEFAULT_BUFFER_SIZE == 1024

MaxPayload == 1     \* payloads over PayloadBytes up to this length
MaxFrames == 2      \* frames per stream
MaxChunk == 5       \* a recv returns at most this many bytes, or all it can
NearEnds == 8       \* ... the former within this many bytes of either end of the stream

PayloadBytes == {"a", SP}

SmallPayloads == SeqsUpTo(PayloadBytes, MaxPayload)

\* n copies of the byte b
Repeat(b, n) == [i \in 1..n |-> b]

\* a payload one byte larger than the initial buffer, and one larger than twice it
BigPayload == Repeat("a", DEFAULT_BUFFER_SIZE + 1)

HugePayload == Repeat("a", 2 * DEFAULT_BUFFER_SIZE + 1)

\* the payload of the frame "3 abc"
Abc == <<"a", "b", "c">>

\* a payload that ends like a length prefix
StalePayload == <<"a", "a", "a", "9", SP>>

\* a payload whose own text begins like a length prefix of more than nine bytes
LongLeadPayload == <<"1">> \o Repeat("a", 10) \o <<SP, "a">>

\* the frame of a payload, as the peer writes it
EncodeFrame(payload) == FormatDecimal(Len(payload)) \o <<SP>> \o payload

RECURSIVE Concat(_)
Concat(fs) == IF fs = <<>> THEN <<>> ELSE EncodeFrame(Head(fs)) \o Concat(Tail(fs))

\* the streams received into a block of any JunkFills content
SmallFrameSeqs ==
    SeqsUpTo(SmallPayloads, MaxFrames) \cup {<<Abc>>, <<<<>>, <<"a">>, <<"a">>>>}

\* the streams received into a block of zeros only
LongFrameSeqs ==
    { <<BigPayload>>, <<HugePayload>>, <<LongLeadPayload>>,
      <<StalePayload, <<"b">>, <<"c">>>> }

\* the stream offset at which frame k ends (0 for k = 0)
FrameEnd(k) == Len(Concat(SubSeq(frames, 1, k)))

\* what malloc may hand out: fresh zero pages, or the residue of an earlier block
JunkFills ==
    { <<>>,
      <<"a", "a", "a", "a", "a", "a">>,
      <<"0", SP, "0", SP, "0", SP, "0", SP>> }

-----------------------------------------------------------------------------
(* Memory of the reassembly buffer.  The region is buffer[0 .. buffer_size-1]; *)
(* the variable holds its bytes up to the last one that is not known to be NUL. *)

\* the byte at 0-based offset i
Cell(mem, i) == IF i < Len(mem) THEN mem[i + 1] ELSE NUL

\* recv's store of chunk at offset off (bytes stored below offset 0 leave the region)
WriteAt(mem, off, chunk) ==
    LET newLen == Max(Len(mem), off + Len(chunk))
    IN  [i \in 1..newLen |->
            IF off <= i - 1 /\ i - 1 < off + Len(chunk)
            THEN chunk[i - off]
            ELSE Cell(mem, i - 1)]

\* memmove(buffer, buffer + n, size - n)
memmove_front(mem, n, size) ==
    IF Len(mem) <= size - n
    THEN Tail_from(mem, Min(n, Len(mem)))
    ELSE [i \in 1..Len(mem) |->
            IF i - 1 < size - n THEN Cell(mem, i - 1 + n) ELSE mem[i]]

NULL == -1
OVERRUN == -2

\* strchr(buffer, ' '): the offset of the first space before any NUL, NULL
\* when a NUL comes first, OVERRUN when the region holds neither
strchr_space(mem, size) ==
    IF \E i \in 1..Len(mem) : mem[i] \in {SP, NUL}
    THEN LET i == CHOOSE j \in 1..Len(mem) :
                     /\ mem[j] \in {SP, NUL}
                     /\ \A k \in 1..(j - 1) : mem[k] \notin {SP, NUL}
         IN  IF mem[i] = SP THEN i - 1 ELSE NULL
    ELSE IF Len(mem) < size THEN NULL ELSE OVERRUN

\* strncpy(message, src, n) read back as a C string: n bytes, cut at the first NUL
strncpy_string(mem, off, n) ==
    LET last == Min(off + n, Len(mem))
        nuls == {i \in (off + 1)..last : mem[i] = NUL}
        stop == IF nuls = {} THEN last
                ELSE (CHOOSE i \in nuls : \A j \in nuls : i <= j) - 1
    IN  SubSeq(mem, off + 1, stop)

-----------------------------------------------------------------------------
(* tcp_client_receive_response *)

first_space_addr == strchr_space(buffer, buffer_size)

\* char_message_length after lines 270-271
char_message_length == SubSeq(buffer, 1, first_space_addr)

message_length == atoi(char_message_length)

\* sizeof char_message_length
CHAR_MESSAGE_LENGTH_SIZE == 10

\* line 266
Desynced == first_space_addr = NULL \/ ~isdigit(Cell(buffer, 0))

\* line 276
TooSmall == message_length > buffer_size - first_space_addr - 1

\* line 282
Incomplete == total_bytes_received < message_length

\* line 294
bytes_read == strlen(char_message_length) + message_length + 1

RecvInit ==
    /\ \E fs \in SmallFrameSeqs \cup LongFrameSeqs :
          /\ frames = fs
          /\ buffer \in (IF fs \in LongFrameSeqs THEN {<<>>} ELSE JunkFills)
    /\ stream = Concat(frames)
    /\ rpos = 0
    /\ buffer_size = DEFAULT_BUFFER_SIZE
    /\ total_bytes_received = 0
    /\ all_done = FALSE
    /\ recv_pc = "recv"
    /\ heap_corrupt = FALSE
    /\ buffer_freed = FALSE
    /\ live_messages = 0
    /\ last_recv = "none"
    /\ read_start = 0
    /\ delivered = <<>>
    /\ since_read = 0

\* the receiver is not running
RecvIdle ==
    /\ frames = <<>>
    /\ stream = <<>>
    /\ rpos = 0
    /\ buffer = <<>>
    /\ buffer_size = DEFAULT_BUFFER_SIZE
    /\ total_bytes_received = 0
    /\ all_done = FALSE
    /\ recv_pc = "returned"
    /\ heap_corrupt = FALSE
    /\ buffer_freed = FALSE
    /\ live_messages = 0
    /\ last_recv = "none"
    /\ read_start = 0
    /\ delivered = <<>>
    /\ since_read = 0

\* the outcomes of free or realloc on the buffer's block
HeapOutcomes == IF heap_corrupt THEN {"ok", "abort"} ELSE {"ok"}

\* lines 243-246: all_done is set, the buffer is freed, EXIT_SUCCESS
RecvReturnDone ==
    /\ recv_pc = "recv"
    /\ all_done
    /\ \E o \in HeapOutcomes :
          /\ recv_pc' = IF o = "ok" THEN "returned" ELSE "crashed"
          /\ buffer_freed' = (o = "ok")
    /\ UNCHANGED <<buffer, buffer_size, total_bytes_received, all_done, heap_corrupt,
                   live_messages, last_recv, read_start, delivered, since_read>>
    /\ UNCHANGED peer_vars
    /\ UNCHANGED outside_recv

\* the sizes a recv asked for room bytes may return when avail bytes are pending,
\* pos bytes of the stream having been returned before
ChunkSizes(pos, avail, room) ==
    {n \in 1..Min(avail, room) :
        \/ n = Min(avail, room)
        \/ n <= MaxChunk /\ (pos + n <= NearEnds \/ avail <= NearEnds)}

\* lines 250, 261: recv stores n bytes at buffer + total_bytes_received
RecvData ==
    /\ recv_pc = "recv"
    /\ ~all_done
    /\ \E n \in ChunkSizes(rpos, Len(stream) - rpos, buffer_size - total_bytes_received) :
          /\ buffer' = WriteAt(buffer, total_bytes_received, SubSeq(stream, rpos + 1, rpos + n))
          /\ rpos' = rpos + n
          /\ total_bytes_received' = total_bytes_received + n
    /\ heap_corrupt' = (heap_corrupt \/ total_bytes_received < 0)
    /\ last_recv' = "data"
    /\ read_start' = rpos
    /\ since_read' = 0
    /\ recv_pc' = "decode"
    /\ UNCHANGED <<buffer_size, all_done, buffer_freed, live_messages, delivered>>
    /\ UNCHANGED <<frames, stream>>
    /\ UNCHANGED outside_recv

\* recv returns 0 and the decode loop is entered all the same
RecvClosedDecodes ==
    /\ recv_pc = "recv"
    /\ ~all_done
    /\ last_recv' = "closed"
    /\ recv_pc' = "decode"
    /\ UNCHANGED <<buffer, buffer_size, total_bytes_received, all_done, heap_corrupt,
                   buffer_freed, live_messages, read_start, delivered, since_read>>
    /\ UNCHANGED peer_vars
    /\ UNCHANGED outside_recv

\* lines 250, 257-260, 300: recv returns 0, the loop is left, EXIT_SUCCESS; the
\* peer may close after any byte of its stream
RecvClosed ==
    /\ recv_pc = "recv"
    /\ ~all_done
    /\ last_recv' = "closed"
    /\ recv_pc' = "returned"
    /\ UNCHANGED <<buffer, buffer_size, total_bytes_received, all_done, heap_corrupt,
                   buffer_freed, live_messages, read_start, delivered, since_read>>
    /\ UNCHANGED peer_vars
    /\ UNCHANGED outside_recv

\* recv returned -1 and the loop went on to the next recv
RecvErrorIgnored ==
    /\ recv_pc = "recv"
    /\ ~all_done
    /\ last_recv # "error"
    /\ last_recv' = "error"
    /\ UNCHANGED <<buffer, buffer_size, total_bytes_received, all_done, recv_pc, heap_corrupt,
                   buffer_freed, live_messages, read_start, delivered, since_read>>
    /\ UNCHANGED peer_vars
    /\ UNCHANGED outside_recv

\* lines 250, 252-255: recv returns -1, the process exits
RecvError ==
    /\ recv_pc = "recv"
    /\ ~all_done
    /\ last_recv' = "error"
    /\ recv_pc' = "exited"
    /\ UNCHANGED <<buffer, buffer_size, total_bytes_received, all_done, heap_corrupt,
                   buffer_freed, live_messages, read_start, delivered, since_read>>
    /\ UNCHANGED peer_vars
    /\ UNCHANGED outside_recv

\* line 265 when the whole region holds neither a space nor a NUL: strchr reads
\* past the region; it meets a NUL first (NULL), or the process dies
DecodeOverrun ==
    /\ recv_pc = "decode"
    /\ first_space_addr = OVERRUN
    /\ \E o \in {"null", "abort"} :
          /\ recv_pc' = IF o = "null" THEN "recv" ELSE "crashed"
          /\ total_bytes_received' = IF o = "null" THEN 0 ELSE total_bytes_received
    /\ UNCHANGED <<buffer, buffer_size, all_done, heap_corrupt, buffer_freed, live_messages,
                   last_recv, read_start, delivered, since_read>>
    /\ UNCHANGED peer_vars
    /\ UNCHANGED outside_recv

\* lines 265-269: no space, or no digit at buffer[0]
DecodeDesync ==
    /\ recv_pc = "decode"
    /\ first_space_addr # OVERRUN
    /\ Desynced
    /\ total_bytes_received' = 0
    /\ recv_pc' = "recv"
    /\ UNCHANGED <<buffer, buffer_size, all_done, heap_corrupt, buffer_freed, live_messages,
                   last_recv, read_start, delivered, since_read>>
    /\ UNCHANGED peer_vars
    /\ UNCHANGED outside_recv

\* the guard of lines 270-298: a space was found and buffer[0] is a digit
Parsed == recv_pc = "decode" /\ first_space_addr >= 0 /\ ~Desynced

\* lines 270-271 when the prefix does not fit char_message_length: the stores go
\* past the array; the process dies, or goes on as the other Decode steps say
DecodeStackSmash ==
    /\ Parsed
    /\ first_space_addr >= CHAR_MESSAGE_LENGTH_SIZE
    /\ recv_pc' = "crashed"
    /\ UNCHANGED <<buffer, buffer_size, total_bytes_received, all_done, heap_corrupt,
                   buffer_freed, live_messages, last_recv, read_start, delivered, since_read>>
    /\ UNCHANGED peer_vars
    /\ UNCHANGED outside_recv

\* the buffer is doubled and the bytes it held are lost
DecodeGrowLosesBytes ==
    /\ Parsed
    /\ TooSmall
    /\ buffer_size' = buffer_size * 2
    /\ buffer' = <<>>
    /\ recv_pc' = "recv"
    /\ UNCHANGED <<total_bytes_received, all_done, heap_corrupt, buffer_freed,
                   live_messages, last_recv, read_start, delivered, since_read>>
    /\ UNCHANGED peer_vars
    /\ UNCHANGED outside_recv

\* lines 275-280: the buffer is doubled, the bytes held are kept; the new half is
\* read as NUL bytes (the long streams run on a zeroed heap, see LongFrameSeqs)
DecodeGrow ==
    /\ Parsed
    /\ TooSmall
    /\ \E o \in HeapOutcomes :
          /\ recv_pc' = IF o = "ok" THEN "recv" ELSE "crashed"
          /\ buffer_size' = IF o = "ok" THEN buffer_size * 2 ELSE buffer_size
    /\ UNCHANGED <<buffer, total_bytes_received, all_done, heap_corrupt, buffer_freed,
                   live_messages, last_recv, read_start, delivered, since_read>>
    /\ UNCHANGED peer_vars
    /\ UNCHANGED outside_recv

\* lines 282-284
DecodeIncomplete ==
    /\ Parsed
    /\ ~TooSmall
    /\ Incomplete
    /\ recv_pc' = "recv"
    /\ UNCHANGED <<buffer, buffer_size, total_bytes_received, all_done, heap_corrupt,
                   buffer_freed, live_messages, last_recv, read_start, delivered, since_read>>
    /\ UNCHANGED peer_vars
    /\ UNCHANGED outside_recv

\* lines 286-297: a message is extracted and handed to handle_response, whose
\* answer is the caller's
DecodeDeliver ==
    /\ Parsed
    /\ ~TooSmall
    /\ ~Incomplete
    /\ delivered' = Append(delivered, strncpy_string(buffer, first_space_addr + 1, message_length))
    /\ since_read' = since_read + 1
    /\ \E answer \in BOOLEAN :
          IF answer
          THEN /\ all_done' = TRUE
               /\ recv_pc' = "recv"
               /\ live_messages' = live_messages + 1
               /\ UNCHANGED <<buffer, total_bytes_received>>
          ELSE /\ \E n \in {bytes_read} :      \* line 294: computed once
                     /\ buffer' = memmove_front(buffer, n, buffer_size)
                     /\ total_bytes_received' = total_bytes_received - n
               /\ UNCHANGED <<all_done, recv_pc, live_messages>>
    /\ UNCHANGED <<buffer_size, heap_corrupt, buffer_freed, last_recv, read_start>>
    /\ UNCHANGED peer_vars
    /\ UNCHANGED outside_recv

RecvNext ==
    \/ RecvReturnDone \/ RecvData \/ RecvClosed \/ RecvError
    \/ DecodeOverrun \/ DecodeDesync \/ DecodeStackSmash
    \/ DecodeGrow \/ DecodeIncomplete \/ DecodeDeliver

\* the caller's calls on one connection
MaxCalls == 2

\* lines 233-238 in a later call on the same connection: the locals are new, the
\* buffer is a new block, the connection is where the last call left it
RecvCallAgain ==
    /\ recv_pc = "returned"
    /\ calls < MaxCalls
    /\ calls' = calls + 1
    /\ buffer' \in (IF frames \in LongFrameSeqs THEN {<<>>} ELSE JunkFills)
    /\ buffer_size' = DEFAULT_BUFFER_SIZE
    /\ total_bytes_received' = 0
    /\ all_done' = FALSE
    /\ recv_pc' = "recv"
    /\ buffer_freed' = FALSE
    /\ last_recv' = "none"
    /\ read_start' = rpos
    /\ since_read' = 0
    /\ UNCHANGED <<heap_corrupt, live_messages, delivered>>
    /\ UNCHANGED peer_vars
    /\ UNCHANGED <<send_vars, line_vars, connect_vars, file_vars>>

CallsNext == RecvNext \/ RecvCallAgain

\* the sender is not running
SendIdle ==
    /\ action = Uppercase
    /\ message = <<>>
    /\ request = <<>>
    /\ total_bytes_sent = 0
    /\ wire = <<>>
    /\ partial_writes = 0
    /\ send_pc = "returned"



-----------------------------------------------------------------------------
(* The script: a text of lines, each ending in a newline except perhaps the last *)

MaxLines == 2       \* lines per script

Bogus == <<"b", "o", "g", "u", "s">>

LinesWithNewline ==
    { Uppercase \o <<SP, "a", NL>>,             \* "uppercase a\n"
      Reverse \o <<SP, "a", SP, "b", NL>>,      \* "reverse a b\n"
      <<NL>>,                                   \* "\n"
      <<SP, "a", NL>>,                          \* " a\n"
      Shuffle \o <<NL>>,                        \* "shuffle\n"
      Bogus \o <<SP, "a", NL>>,                 \* "bogus a\n"
      Random \o <<SP, SP, "a", NL>>,            \* "random  a\n"
      Lowercase \o <<SP, NL>>,                  \* "lowercase \n"
      Uppercase \o <<TAB, "a", SP, "b", NL>> }  \* "uppercase\ta b\n"

LinesWithoutNewline ==
    { Uppercase \o <<SP, "a">> }                \* "uppercase a" at the end of the text

Scripts ==
    {f \in SeqsUpTo(LinesWithNewline \cup LinesWithoutNewline, MaxLines) :
        \A i \in 1..(Len(f) - 1) : f[i] \in LinesWithNewline}

-----------------------------------------------------------------------------
(* tcp_client_get_line *)

\* strchr(line, ' ') as a 1-based index, 0 for NULL
FirstSpace(line) ==
    IF \E i \in 1..Len(line) : line[i] = SP
    THEN CHOOSE i \in 1..Len(line) : line[i] = SP /\ \A j \in 1..(i - 1) : line[j] # SP
    ELSE 0

\* the first index from i on that is past the line or at a byte of the set stop
ScanTo(line, i, stop) ==
    IF \E j \in i..Len(line) : line[j] \in stop
    THEN CHOOSE j \in i..Len(line) :
            line[j] \in stop /\ \A k \in i..(j - 1) : line[k] \notin stop
    ELSE Len(line) + 1

\* the first index from i on that is past the line or at a byte that is no white space
SkipSpace(line, i) ==
    IF \E j \in i..Len(line) : ~isspace(line[j])
    THEN CHOOSE j \in i..Len(line) :
            ~isspace(line[j]) /\ \A k \in i..(j - 1) : isspace(line[k])
    ELSE Len(line) + 1

\* sscanf(line, "%s %[^\n]", *action, *message): what it stores; a conversion
\* that matches nothing stores nothing and ends the scan
sscanf_line(line) ==
    LET a0 == SkipSpace(line, 1)
        a1 == ScanTo(line, a0, {SP, TAB, NL})
        m0 == SkipSpace(line, a1)
        m1 == ScanTo(line, m0, {NL})
    IN  [ action_stored  |-> a0 <= Len(line),
          action         |-> SubSeq(line, a0, a1 - 1),
          message_stored |-> a0 <= Len(line) /\ m1 > m0,
          message        |-> SubSeq(line, m0, m1 - 1) ]

\* line 399: the bytes allocated for *action
action_alloc(line) == (FirstSpace(line) - 1) + 1

\* line 400: the bytes allocated for *message
message_alloc(line) == Len(line) - FirstSpace(line)

\* sscanf stores more bytes (the terminating NUL included) than were allocated
ScanOverflows(line) ==
    LET r == sscanf_line(line)
    IN  \/ r.action_stored /\ Len(r.action) + 1 > action_alloc(line)
        \/ r.message_stored /\ Len(r.message) + 1 > message_alloc(line)

\* what a block that sscanf stored nothing into may read as
UnsetStrings == {<<>>, <<"j">>}

\* line 392
SkippedAtOnce(line) == line = <<NL>> \/ line[1] = SP

GetLineInit ==
    /\ file \in Scripts
    /\ consumed = 0
    /\ gl_action = <<>>
    /\ gl_message = <<>>
    /\ gl_ret = 0
    /\ gl_pc = "idle"
    /\ gl_cause = "none"
    /\ gl_overflow = FALSE
    /\ yielded = <<>>

\* the reader is not running
GetLineIdle ==
    /\ file = <<>>
    /\ consumed = 0
    /\ gl_action = <<>>
    /\ gl_message = <<>>
    /\ gl_ret = 0
    /\ gl_pc = "ended"
    /\ gl_cause = "none"
    /\ gl_overflow = FALSE
    /\ yielded = <<>>

\* the caller calls tcp_client_get_line: the first time, or after a line
GetLineCall ==
    /\ gl_pc \in {"idle", "yielded"}
    /\ gl_pc' = "loop"
    /\ UNCHANGED <<file, consumed, gl_action, gl_message, gl_ret, gl_cause, gl_overflow, yielded>>
    /\ UNCHANGED outside_line

\* lines 390, 408-410: getline returns -1 at the end of the text
GetLineEnd ==
    /\ gl_pc = "loop"
    /\ consumed = Len(file)
    /\ gl_ret' = -1
    /\ gl_cause' = "eof"
    /\ gl_pc' = "ended"
    /\ UNCHANGED <<file, consumed, gl_action, gl_message, gl_overflow, yielded>>
    /\ UNCHANGED outside_line

\* lines 390, 408-410: getline returns -1 because the read failed
GetLineReadError ==
    /\ gl_pc = "loop"
    /\ gl_ret' = -1
    /\ gl_cause' = "error"
    /\ gl_pc' = "ended"
    /\ UNCHANGED <<file, consumed, gl_action, gl_message, gl_overflow, yielded>>
    /\ UNCHANGED outside_line

\* lines 390-392: an empty line or one that begins with a space
GetLineSkipBlank ==
    /\ gl_pc = "loop"
    /\ consumed < Len(file)
    /\ SkippedAtOnce(file[consumed + 1])
    /\ consumed' = consumed + 1
    /\ UNCHANGED <<file, gl_action, gl_message, gl_ret, gl_pc, gl_cause, gl_overflow, yielded>>
    /\ UNCHANGED outside_line

\* lines 390-398: a line without a space
GetLineSkipNoSpace ==
    /\ gl_pc = "loop"
    /\ consumed < Len(file)
    /\ ~SkippedAtOnce(file[consumed + 1])
    /\ FirstSpace(file[consumed + 1]) = 0
    /\ consumed' = consumed + 1
    /\ UNCHANGED <<file, gl_action, gl_message, gl_ret, gl_pc, gl_cause, gl_overflow, yielded>>
    /\ UNCHANGED outside_line

\* lines 399-401 on the line at hand: *action and *message after sscanf
Scanned(line, unset) ==
    LET r == sscanf_line(line)
    IN  [ action  |-> IF r.action_stored THEN r.action ELSE unset,
          message |-> IF r.message_stored THEN r.message ELSE unset ]

\* the outcomes of a scan: stores past an allocation may end the process
ScanOutcomes(line) == IF ScanOverflows(line) THEN {"ok", "abort"} ELSE {"ok"}

\* lines 390-405, a line with a space: it is scanned, then skipped when the
\* action is none of the five, else returned with the number of bytes read
GetLineScan ==
    /\ gl_pc = "loop"
    /\ consumed < Len(file)
    /\ ~SkippedAtOnce(file[consumed + 1])
    /\ FirstSpace(file[consumed + 1]) # 0
    /\ consumed' = consumed + 1
    /\ \E unset \in UnsetStrings, o \in ScanOutcomes(file[consumed + 1]) :
          LET line == file[consumed + 1]
              s == Scanned(line, unset)
          IN  /\ gl_action' = s.action
              /\ gl_message' = s.message
              /\ gl_overflow' = (gl_overflow \/ ScanOverflows(line))
              /\ IF o = "abort"
                 THEN /\ gl_pc' = "crashed"
                      /\ UNCHANGED <<gl_ret, yielded>>
                 ELSE IF is_valid_action(s.action)
                 THEN /\ gl_pc' = "yielded"
                      /\ gl_ret' = Len(line)
                      /\ yielded' = Append(yielded, consumed + 1)
                 ELSE /\ gl_pc' = "loop"
                      /\ UNCHANGED <<gl_ret, yielded>>
    /\ UNCHANGED <<file, gl_cause>>
    /\ UNCHANGED outside_line

GetLineNext ==
    \/ GetLineCall \/ GetLineEnd \/ GetLineReadError
    \/ GetLineSkipBlank \/ GetLineSkipNoSpace \/ GetLineScan

-----------------------------------------------------------------------------
(* tcp_client_connect, lines 140-180 *)

MaxAddrs == 3

\* what becomes of one resolved address: socket() fails, connect() fails, or
\* both succeed
NoSocket == "nosocket"
Refused  == "refused"
Reachable == "ok"
AddrOutcomes == {NoSocket, Refused, Reachable}

\* the lists getaddrinfo returns with 0: never empty
AddrLists == SeqsUpTo(AddrOutcomes, MaxAddrs) \ {<<>>}

\* p->ai_next; 0 is NULL
ai_next(i) == IF i < Len(servinfo) THEN i + 1 ELSE 0

\* the descriptor socket() returns: the lowest one not in use (0, 1, 2 are taken)
LowestFreeFd == CHOOSE n \in 3..(3 + MaxAddrs + 1) :
                    /\ \A s \in open_sockets : s.fd # n
                    /\ \A m \in 3..(n - 1) : \E s \in open_sockets : s.fd = m

ConnectInit ==
    /\ servinfo \in AddrLists
    /\ p = 0
    /\ sockfd = -1
    /\ open_sockets = {}
    /\ attempts = <<>>
    /\ connect_ret = 0
    /\ connect_pc = "idle"

\* the connector is not running
ConnectIdle ==
    /\ servinfo = <<>>
    /\ p = 0
    /\ sockfd = -1
    /\ open_sockets = {}
    /\ attempts = <<>>
    /\ connect_ret = 0
    /\ connect_pc = "returned"

\* lines 151-154: getaddrinfo fails, the process exits
ConnectResolveFail ==
    /\ connect_pc = "idle"
    /\ connect_pc' = "exited"
    /\ UNCHANGED <<servinfo, p, sockfd, open_sockets, attempts, connect_ret>>
    /\ UNCHANGED outside_connect

\* lines 151, 157: getaddrinfo succeeds, p = servinfo
ConnectResolve ==
    /\ connect_pc = "idle"
    /\ p' = 1
    /\ connect_pc' = "socket"
    /\ UNCHANGED <<servinfo, sockfd, open_sockets, attempts, connect_ret>>
    /\ UNCHANGED outside_connect

\* lines 159-162: socket() fails, on to the next entry
ConnectSocketFail ==
    /\ connect_pc = "socket"
    /\ p # 0
    /\ servinfo[p] = NoSocket
    /\ sockfd' = -1
    /\ p' = ai_next(p)
    /\ UNCHANGED <<servinfo, open_sockets, attempts, connect_ret, connect_pc>>
    /\ UNCHANGED outside_connect

\* line 159: socket() succeeds
ConnectSocketOk ==
    /\ connect_pc = "socket"
    /\ p # 0
    /\ servinfo[p] # NoSocket
    /\ sockfd' = LowestFreeFd
    /\ open_sockets' = open_sockets \cup {[fd |-> LowestFreeFd, entry |-> p]}
    /\ connect_pc' = "connect"
    /\ UNCHANGED <<servinfo, p, attempts, connect_ret>>
    /\ UNCHANGED outside_connect

\* connect() fails and the socket is kept open
ConnectRefusedLeaks ==
    /\ connect_pc = "connect"
    /\ servinfo[p] = Refused
    /\ attempts' = Append(attempts, p)
    /\ p' = ai_next(p)
    /\ connect_pc' = "socket"
    /\ UNCHANGED <<servinfo, sockfd, open_sockets, connect_ret>>
    /\ UNCHANGED outside_connect

\* lines 165-169: connect() fails, the socket is closed, on to the next entry
ConnectRefused ==
    /\ connect_pc = "connect"
    /\ servinfo[p] = Refused
    /\ attempts' = Append(attempts, p)
    /\ open_sockets' = {s \in open_sockets : s.fd # sockfd}
    /\ p' = ai_next(p)
    /\ connect_pc' = "socket"
    /\ UNCHANGED <<servinfo, sockfd, connect_ret>>
    /\ UNCHANGED outside_connect

\* lines 165, 170: connect() succeeds, break
ConnectOk ==
    /\ connect_pc = "connect"
    /\ servinfo[p] = Reachable
    /\ attempts' = Append(attempts, p)
    /\ connect_pc' = "after"
    /\ UNCHANGED <<servinfo, p, sockfd, open_sockets, connect_ret>>
    /\ UNCHANGED outside_connect

\* lines 157, 173-176: the list is exhausted, p == NULL, -1
ConnectReturnFailed ==
    /\ connect_pc = "socket"
    /\ p = 0
    /\ connect_ret' = -1
    /\ connect_pc' = "returned"
    /\ UNCHANGED <<servinfo, p, sockfd, open_sockets, attempts>>
    /\ UNCHANGED outside_connect

\* lines 173, 178: p != NULL, return sockfd
ConnectReturnSocket ==
    /\ connect_pc = "after"
    /\ p # 0
    /\ connect_ret' = sockfd
    /\ connect_pc' = "returned"
    /\ UNCHANGED <<servinfo, p, sockfd, open_sockets, attempts>>
    /\ UNCHANGED outside_connect

ConnectNext ==
    \/ ConnectResolveFail
    \/ ConnectResolve
    \/ ConnectSocketFail
    \/ ConnectSocketOk
    \/ ConnectRefused
    \/ ConnectOk
    \/ ConnectReturnFailed
    \/ ConnectReturnSocket

-----------------------------------------------------------------------------
(* tcp_client_open_file, lines 324-348, and tcp_client_close_file, lines 421-433 *)

MaxFileCalls == 4

EXIT_SUCCESS == 0
EXIT_FAILURE == 1

\* the caller starts with a NULL handle and calls the two functions in any order
FileInit ==
    /\ fd = "NULL"
    /\ file_log = <<>>
    /\ file_ret = -1
    /\ closed_what = "none"
    /\ file_pc = "ready"

\* no file function runs
FileIdle ==
    /\ fd = "NULL"
    /\ file_log = <<>>
    /\ file_ret = -1
    /\ closed_what = "none"
    /\ file_pc = "exited"

\* the caller may make another call
FileReady == file_pc = "ready" /\ Len(file_log) < MaxFileCalls

\* lines 326-328: the name "-" gives stdin
OpenStdin ==
    /\ FileReady
    /\ fd' = "stdin"
    /\ file_log' = Append(file_log, "open -")
    /\ file_ret' = -1
    /\ closed_what' = "none"
    /\ UNCHANGED file_pc
    /\ UNCHANGED outside_file

\* lines 330-335: fopen fails, the process exits
OpenMissing ==
    /\ FileReady
    /\ file_log' = Append(file_log, "open missing")
    /\ file_ret' = -1
    /\ closed_what' = "none"
    /\ file_pc' = "exited"
    /\ UNCHANGED fd
    /\ UNCHANGED outside_file

\* lines 338-344: the file is empty, the process exits
OpenEmpty ==
    /\ FileReady
    /\ file_log' = Append(file_log, "open empty")
    /\ file_ret' = -1
    /\ closed_what' = "none"
    /\ file_pc' = "exited"
    /\ UNCHANGED fd
    /\ UNCHANGED outside_file

\* lines 338-339: the second fopen fails and fseek is given NULL
OpenTempFails ==
    /\ FileReady
    /\ file_log' = Append(file_log, "open, no second handle")
    /\ file_ret' = -1
    /\ closed_what' = "none"
    /\ file_pc' = "crashed"
    /\ UNCHANGED fd
    /\ UNCHANGED outside_file

\* lines 330, 338-347: the file exists and is not empty
OpenFile ==
    /\ FileReady
    /\ fd' = "open"
    /\ file_log' = Append(file_log, "open")
    /\ file_ret' = -1
    /\ closed_what' = "none"
    /\ UNCHANGED file_pc
    /\ UNCHANGED outside_file

\* lines 423-426: fd == NULL
CloseNull ==
    /\ FileReady
    /\ fd = "NULL"
    /\ file_log' = Append(file_log, "close")
    /\ closed_what' = fd
    /\ file_ret' = EXIT_FAILURE
    /\ UNCHANGED <<fd, file_pc>>
    /\ UNCHANGED outside_file

\* lines 428-432: fclose of an open stream; whether it returns 0 or EOF the stream
\* is gone, and the caller's pointer, passed by value, still points at it
CloseOpen ==
    /\ FileReady
    /\ fd \in {"open", "stdin"}
    /\ file_log' = Append(file_log, "close")
    /\ closed_what' = fd
    /\ \E r \in {EXIT_SUCCESS, EXIT_FAILURE} : file_ret' = r
    /\ fd' = "closed"
    /\ UNCHANGED file_pc
    /\ UNCHANGED outside_file

\* what fclose of a stream that was closed before can do: return 0, return EOF,
\* or bring the process down (the FILE object was freed)
DanglingOutcomes == {"zero", "eof", "crash"}

\* lines 423, 428-432: fd is not NULL but the stream was closed before
CloseClosed ==
    /\ FileReady
    /\ fd = "closed"
    /\ file_log' = Append(file_log, "close")
    /\ closed_what' = fd
    /\ \E o \in DanglingOutcomes :
          /\ file_ret' = CASE o = "zero" -> EXIT_SUCCESS
                           [] o = "eof" -> EXIT_FAILURE
                           [] OTHER -> file_ret
          /\ file_pc' = IF o = "crash" THEN "crashed" ELSE file_pc
    /\ UNCHANGED fd
    /\ UNCHANGED outside_file

FileNext ==
    \/ OpenStdin
    \/ OpenMissing
    \/ OpenEmpty
    \/ OpenTempFails
    \/ OpenFile
    \/ CloseNull
    \/ CloseOpen
    \/ CloseClosed

-----------------------------------------------------------------------------
(* Specifications: one function runs, the others are idle *)

\* the functions that are not running
OthersIdle == ConnectIdle /\ FileIdle /\ calls = 1

\* tcp_client_receive_response
Init == RecvInit /\ SendIdle /\ GetLineIdle /\ OthersIdle

Spec == Init /\ [][RecvNext]_vars

\* tcp_client_receive_response, called again after it has returned
SpecCalls == Init /\ [][CallsNext]_vars

\* tcp_client_receive_response when every recv on a connection with bytes pending
\* returns some of them and every step of the function is eventually taken; the
\* peer is free to close or not, and a recv is free not to fail
RecvSteps ==
    \/ RecvData \/ RecvReturnDone
    \/ DecodeOverrun \/ DecodeDesync \/ DecodeStackSmash
    \/ DecodeGrow \/ DecodeIncomplete \/ DecodeDeliver

RecvFairness == WF_vars(RecvSteps)

SpecLive == Init /\ [][RecvNext]_vars /\ RecvFairness

\* tcp_client_send_request
InitSend == SendInit /\ RecvIdle /\ GetLineIdle /\ OthersIdle

SpecSend == InitSend /\ [][SendNext]_vars

\* tcp_client_get_line, called until it returns -1
InitLine == GetLineInit /\ SendIdle /\ RecvIdle /\ OthersIdle

SpecLine == InitLine /\ [][GetLineNext]_vars

\* tcp_client_connect
InitConnect ==
    ConnectInit /\ SendIdle /\ RecvIdle /\ GetLineIdle /\ FileIdle /\ calls = 1

SpecConnect == InitConnect /\ [][ConnectNext]_vars

\* tcp_client_open_file and tcp_client_close_file, called in any order
InitFile ==
    FileInit /\ SendIdle /\ RecvIdle /\ GetLineIdle /\ ConnectIdle /\ calls = 1

SpecFile == InitFile /\ [][FileNext]_vars

-----------------------------------------------------------------------------
(* Properties of tcp_client_receive_response, checked under Spec *)

IsPrefix(a, b) == Len(a) <= Len(b) /\ SubSeq(b, 1, Len(a)) = a

\* the i-th message handed to handle_response since the last recv
SinceRead(i) == delivered[Len(delivered) - since_read + i]

\* the last recv began at the end of frame k and returned frames k+1 and k+2 whole
TwoFramesRead(k) ==
    /\ last_recv = "data"
    /\ k + 2 <= Len(frames)
    /\ FrameEnd(k) = read_start
    /\ FrameEnd(k + 2) <= rpos

\* C1: split-read invariance.  However the stream of well-formed frames is cut
\* into reads, the messages handed to handle_response are the payloads of the
\* frames, in wire order, none altered or duplicated (a prefix of frames at any
\* moment), and none dropped: when the decode loop has finished with handle_response
\* never having answered true, every frame whose bytes have all been read has
\* been handed over.
C1_SplitReadInvariance ==
    /\ IsPrefix(delivered, frames)
    /\ (recv_pc = "recv" /\ ~all_done) =>
          \A k \in 1..Len(frames) : rpos >= FrameEnd(k) => Len(delivered) >= k

\* C2: payload integrity.  Whenever the decode loop is about to extract a message
\* and invoke handle_response (lines 286-290), the prefix, the space and all
\* message_length payload bytes lie inside the valid region of the buffer.
C2_PayloadIntegrity ==
    (Parsed /\ ~TooSmall /\ ~Incomplete) =>
        first_space_addr + 1 + message_length <= total_bytes_received

\* C5: multi-frame-per-read.  When a recv that began at a frame boundary returned
\* two whole frames, then by the time the decode loop is left the first has been
\* handed to handle_response and, unless handle_response answered true to it,
\* the second after it.
C5_TwoFramesOneRead ==
    \A k \in 0..Len(frames) :
        (recv_pc = "recv" /\ TwoFramesRead(k)) =>
            /\ since_read >= 1
            /\ SinceRead(1) = frames[k + 1]
            /\ ~(all_done /\ since_read = 1) =>
                  /\ since_read >= 2
                  /\ SinceRead(2) = frames[k + 2]

\* C6: growth correctness.  A frame whose declared length exceeds
\* DEFAULT_BUFFER_SIZE is handed to handle_response as exactly its payload.
C6_GrowthCorrectness ==
    \A k \in 1..Len(frames) :
        (Len(frames[k]) > DEFAULT_BUFFER_SIZE /\ Len(delivered) >= k) =>
            delivered[k] = frames[k]

\* C7: completion signalling.  Once handle_response has answered true, the next
\* step of the call is its return with success: no recv, no further invocation.
C7_CompletionSignalling ==
    [][all_done =>
          /\ recv_pc' = "returned"
          /\ delivered' = delivered
          /\ last_recv' = last_recv
          /\ rpos' = rpos]_vars

\* C8: graceful close.  A recv that returns 0 ends the call with success whatever
\* the buffer holds, and nothing is handed to handle_response in or after it.
C8_GracefulClose ==
    [][last_recv' = "closed" => (recv_pc' = "returned" /\ delivered' = delivered)]_vars

\* a recv returned 0 while the buffer held the bytes of an incomplete frame
\* ("1 " of the frame "1 a" is not a case: the code takes it for complete)
C8_Witness ==
    /\ last_recv = "closed"
    /\ recv_pc = "returned"
    /\ total_bytes_received > 0
    /\ frames = <<Abc>>
    /\ delivered = <<>>

-----------------------------------------------------------------------------
(* Properties of tcp_client_send_request, checked under SpecSend *)

\* C3: partial writes.  When the call returns success, the bytes the connection
\* accepted are, in order, exactly the request frame.
C3_SendsFrameOnce ==
    send_pc = "returned" => wire = request

\* C4: request encoding.  The frame is the action, one space, the decimal byte
\* length of the message (digits only, no leading zero, read back as a number it
\* is the length of the message, not of the frame), one space, the message, and
\* nothing after it.
C4_RequestEncoding ==
    send_pc # "idle" =>
        LET la == Len(action)
            lm == Len(message)
            nd == Len(request) - la - lm - 2
        IN  /\ nd >= 1
            /\ SubSeq(request, 1, la) = action
            /\ request[la + 1] = SP
            /\ \A i \in 1..nd : isdigit(request[la + 1 + i])
            /\ nd > 1 => request[la + 2] # "0"
            /\ atoi(SubSeq(request, la + 2, la + 1 + nd)) = lm
            /\ request[la + nd + 2] = SP
            /\ SubSeq(request, la + nd + 3, Len(request)) = message
            /\ (action = Uppercase /\ message = Hello) =>
                  request = Uppercase \o <<SP, "5", SP>> \o Hello
            /\ message = <<>> => request = action \o <<SP, "0", SP>>

\* a request was built for a message with spaces and a two-digit length
C4_Witness ==
    /\ send_pc = "returned"
    /\ message = TwelveBytes
    /\ Len(request) = Len(action) + 4 + Len(message)

-----------------------------------------------------------------------------
(* Properties of tcp_client_get_line, checked under SpecLine *)

\* a line without its trailing newline
Content(line) ==
    IF line # <<>> /\ line[Len(line)] = NL THEN SubSeq(line, 1, Len(line) - 1) ELSE line

\* the lines the script reader is to return: not empty, not beginning with a
\* space, with a space, and with one of the five actions before the first space
Acceptable(line) ==
    /\ Content(line) # <<>>
    /\ line[1] # SP
    /\ FirstSpace(line) # 0
    /\ SubSeq(line, 1, FirstSpace(line) - 1) \in actions

\* the numbers of the acceptable lines among the first n, in order
RECURSIVE AcceptableUpTo(_)
AcceptableUpTo(n) ==
    IF n = 0 THEN <<>>
    ELSE IF Acceptable(file[n]) THEN Append(AcceptableUpTo(n - 1), n)
    ELSE AcceptableUpTo(n - 1)

\* C9: script reader filtering and order.  When a call has returned without a
\* read error, the lines returned so far are exactly the acceptable lines among
\* those consumed, in file order, and a call returns -1 only when the whole text
\* has been consumed.
C9_ReaderFiltering ==
    (gl_pc \in {"yielded", "ended"} /\ gl_cause # "error") =>
        /\ yielded = AcceptableUpTo(consumed)
        /\ gl_pc = "ended" => (consumed = Len(file) /\ gl_ret = -1)

\* C10: script line splitting.  For a returned line, *action is the bytes before
\* the first space and *message is all bytes after it up to the newline.
C10_LineSplitting ==
    gl_pc = "yielded" =>
        LET line == file[consumed]
            sp == FirstSpace(line)
        IN  /\ gl_action = SubSeq(line, 1, sp - 1)
            /\ gl_message = SubSeq(Content(line), sp + 1, Len(Content(line)))

\* C11: end of the text against a read error.  A call that ends because the text
\* is exhausted returns the end-of-sequence value -1, and a call that ends because
\* the read failed returns something the caller can tell from it.
C11_EndDistinctFromError ==
    gl_pc = "ended" =>
        /\ gl_cause = "eof" => gl_ret = -1
        /\ gl_cause = "error" => gl_ret # -1

-----------------------------------------------------------------------------
(* Properties of tcp_client_connect, checked under SpecConnect *)

\* the first entry of the list for which socket and connect both succeed; 0 if none
FirstReachable ==
    IF \E i \in 1..Len(servinfo) : servinfo[i] = Reachable
    THEN CHOOSE i \in 1..Len(servinfo) :
            /\ servinfo[i] = Reachable
            /\ \A j \in 1..(i - 1) : servinfo[j] # Reachable
    ELSE 0

-----------------------------------------------------------------------------
(* Properties of tcp_client_close_file, checked under SpecFile *)

\* C13: idempotent close.  A tcp_client_close_file on a handle that is NULL or
\* was closed before returns EXIT_FAILURE and the program goes on running.
C13_IdempotentClose ==
    closed_what \in {"NULL", "closed"} =>
        /\ file_pc # "crashed"
        /\ file_ret = EXIT_FAILURE

-----------------------------------------------------------------------------
(* Properties of the two socket functions, checked under SpecIO: the program is *)
(* in one call of tcp_client_send_request or of tcp_client_receive_response     *)

InitIO == InitSend \/ Init

IONext == SendNext \/ RecvNext

SpecIO == InitIO /\ [][IONext]_vars

\* C14: fatal I/O errors.  The step in which recv returns -1 ends the call with
\* the process exiting, nothing being read or handed to handle_response in it,
\* and once a call has ended on a failed recv or send it takes no further step:
\* no read, no write, no invocation, no success reported.
C14_FatalIOErrors ==
    [][/\ last_recv' = "error" =>
             /\ recv_pc' = "exited"
             /\ delivered' = delivered
             /\ rpos' = rpos
       /\ recv_pc = "exited" =>
             /\ recv_pc' = "exited"
             /\ delivered' = delivered
             /\ rpos' = rpos
       /\ send_pc = "exited" =>
             /\ send_pc' = "exited"
             /\ wire' = wire]_vars

\* a recv failed after a message had been delivered
C14_Witness ==
    /\ recv_pc = "exited"
    /\ last_recv = "error"
    /\ delivered # <<>>
    /\ rpos < Len(stream)

-----------------------------------------------------------------------------
(* Further properties of tcp_client_receive_response, checked under Spec *)

\* the bytes received and not yet consumed hold no space
NoSpaceInValidRegion ==
    \A i \in 0..(total_bytes_received - 1) : Cell(buffer, i) # SP

\* C15: desync recovery.  Whenever the decode loop finds the valid region without
\* a space, or its first byte not a digit, its step resets total_bytes_received
\* to 0 and goes back to recv without invoking handle_response and without
\* failing; bytes beyond the valid region play no part.
C15_DesyncRecovery ==
    [][(recv_pc = "decode" /\ (NoSpaceInValidRegion \/ ~isdigit(Cell(buffer, 0)))) =>
          /\ total_bytes_received' = 0
          /\ delivered' = delivered
          /\ recv_pc' = "recv"]_vars

\* C16: buffer capacity.  buffer_size starts at DEFAULT_BUFFER_SIZE and never
\* decreases; a step that changes it doubles it, is taken only when the declared
\* length exceeds buffer_size minus the prefix length minus one, and leaves the
\* valid bytes and their count as they were.
C16_CapacityGrowth ==
    /\ buffer_size = DEFAULT_BUFFER_SIZE
    /\ [][/\ buffer_size' >= buffer_size
          /\ buffer_size' # buffer_size =>
                /\ buffer_size' = 2 * buffer_size
                /\ recv_pc = "decode"
                /\ first_space_addr >= 0
                /\ message_length > buffer_size - first_space_addr - 1
                /\ total_bytes_received' = total_bytes_received
                /\ \A i \in 0..(total_bytes_received - 1) :
                      Cell(buffer', i) = Cell(buffer, i)]_vars

\* the buffer was doubled twice while it held received bytes
C16_Witness ==
    /\ buffer_size = 4 * DEFAULT_BUFFER_SIZE
    /\ total_bytes_received > 0
    /\ buffer # <<>>

\* C17: resource release.  When the call has returned EXIT_SUCCESS, after
\* handle_response answered true or after the peer closed, the buffer has been
\* freed and so has every message that was allocated for handle_response.
C17_ResourceRelease ==
    recv_pc = "returned" =>
        /\ buffer_freed
        /\ live_messages = 0

\* C18: valid-byte cursor.  total_bytes_received stays within 0..buffer_size, and
\* a recv is issued only with at least one byte of room left.
C18_CursorInvariant ==
    /\ 0 <= total_bytes_received
    /\ total_bytes_received <= buffer_size
    /\ (recv_pc = "recv" /\ ~all_done) => total_bytes_received < buffer_size

-----------------------------------------------------------------------------
(* Properties of successive calls of tcp_client_receive_response on one *)
(* connection, checked under SpecCalls                                   *)

\* C19: nothing lost between calls.  In a second or later call on the connection,
\* the messages handed to handle_response over all the calls are still the
\* payloads of the peer's frames in wire order, each once, and whenever the call
\* is about to read from the connection every frame whose bytes have all been
\* read, by this call or an earlier one, has been handed over.
C19_NothingLostBetweenCalls ==
    calls >= 2 =>
        /\ IsPrefix(delivered, frames)
        /\ (recv_pc = "recv" /\ ~all_done) =>
              \A k \in 1..Len(frames) : rpos >= FrameEnd(k) => Len(delivered) >= k

-----------------------------------------------------------------------------
(* Termination of tcp_client_receive_response, checked under SpecLive *)

\* handle_response is the predicate "the message is the payload of the peer's
\* last frame": the answers given so far are its answers
AnswersFollowPredicate ==
    /\ frames # <<>>
    /\ \A i \in 1..Len(delivered) :
          (delivered[i] = frames[Len(frames)]) <=> (all_done /\ i = Len(delivered))

\* C20: termination.  The decode loop is always left again, and when the peer's
\* stream holds a frame to which handle_response answers true and no recv
\* fails, the call eventually returns.
C20_Termination ==
    /\ (recv_pc = "decode") ~> (recv_pc # "decode")
    /\ <>(recv_pc = "returned" \/ last_recv = "error" \/ ~AnswersFollowPredicate)

====
